---- MODULE Spec2Model ----
(***************************************************************************)
(* Job orchestration and status tracking of the style-transfer demo:       *)
(*   - the in-memory job store        (app/api/_processing/state.ts)       *)
(*   - POST /api/process              (app/api/process/route.ts)           *)
(*   - GET  /api/status/[jobId]       (app/api/status/[jobId]/route.ts)    *)
(*   - the browser client's submit / poll loop (app/page.tsx)              *)
(*                                                                         *)
(* Strings of the wire format are kept as strings.  A value that may be    *)
(* absent is a sequence of length 0 or 1.  Job ids are <<"job", n>>.  The  *)
(* artifact uploaded with the r-th request is <<"image", r>>.  A record's  *)
(* timestamps count the milliseconds since Date.now() at its creation.     *)
(***************************************************************************)
EXTENDS Integers, Sequences, FiniteSets, TLC

\* ---------------------------------------------------------------- bounds
MaxRequests == 2      \* submissions (client or direct) in one behaviour
MaxWorkerMs == 1      \* Date.now() at 'close' minus Date.now() at creation
MaxElapsed == 26      \* client seconds since handleStartProcessing
MaxRetryCount == 3    \* largest maxRetries passed to withRetry

\* ------------------------------------------------------- program constants
InitialPollDelay == 1     \* setTimeout(pollStatus, 1000)
StatusTimeout == 10       \* setTimeout(() => statusController.abort(), 10000)
InitialProgress == 5      \* progress of a freshly created record
FullProgress == 100       \* progress of a completed record
DefaultDelay == 1000      \* delay: number = 1000

\* ------------------------------------------------------------ input sets
NoImage == <<>>           \* formData.get('image') is null
Artifact(r) == <<"image", r>>
NoModel == ""             \* formData.get('model_id') is null or ""
ModelIds == {"m1"}
NoParams == ""            \* formData.get('parameters') is null or ""
SubmittedParams == "{strength:0.5,cfgScale:9,steps:30,sampler:DPM++ 2M}"
ParamStrings == {NoParams, "{bad", "null", SubmittedParams}

GarbageOutput == "Traceback"
NullOutput == "null"
EmptyOutput == "{}"
EchoOutput == "{id,image_url,seed,parameters}"
WorkerOutputs == {GarbageOutput, NullOutput, EmptyOutput, EchoOutput}
ExitCodes == {0, 1}
Seeds == {11, 22}         \* values of Math.floor(Math.random() * 1e9)

JobId(n) == <<"job", n>>
JobIds == {JobId(n) : n \in 1..(MaxRequests + 1)}
WorkerId == <<"wid", 1>>
WorkerUrl == <<"url", "out.png">>
UndefinedUrl == <<"undefined", "">>
NullStep == "<null>"

VARIABLES jobs, reqs, lastView, client, call

vars == <<jobs, reqs, lastView, client, call>>

\* ------------------------------------------------------------- the store
NoJob == [status |-> "none"]

\* getProcessingState().jobs.get(id): undefined is NoJob
getProcessingState == jobs

\* mutant: an id that is not fresh
NewJobId_Reused == JobId(1)

\* `job_${Date.now()}_${Math.random().toString(36).substr(2, 9)}`: the
\* nine random base-36 digits are taken to make the id fresh.
NewJobId == JobId(Cardinality({j \in JobIds : jobs[j] # NoJob}) + 1)

\* --------------------------------------------------------- JSON.parse
EmptyObject == [f \in {} |-> ""]

\* JSON.parse(parameters): ok is FALSE when it throws SyntaxError
ParseParameters(s) ==
    IF s = "null" THEN [ok |-> TRUE, isNull |-> TRUE, obj |-> EmptyObject]
    ELSE IF s = "{}" THEN [ok |-> TRUE, isNull |-> FALSE, obj |-> EmptyObject]
    ELSE IF s = SubmittedParams
      THEN [ok |-> TRUE, isNull |-> FALSE,
            obj |-> [strength |-> "0.5", cfgScale |-> "9",
                     steps |-> "30", sampler |-> "DPM++ 2M"]]
    ELSE [ok |-> FALSE, isNull |-> FALSE, obj |-> EmptyObject]

\* JSON.parse(output) of the worker's stdout
ParseOutput(s) ==
    IF s = NullOutput
      THEN [ok |-> TRUE, isNull |-> TRUE, id |-> <<>>, image_url |-> <<>>,
            seed |-> <<>>, parameters |-> <<>>]
    ELSE IF s = EmptyOutput
      THEN [ok |-> TRUE, isNull |-> FALSE, id |-> <<>>, image_url |-> <<>>,
            seed |-> <<>>, parameters |-> <<>>]
    ELSE IF s = EchoOutput
      THEN [ok |-> TRUE, isNull |-> FALSE, id |-> <<WorkerId>>,
            image_url |-> <<WorkerUrl>>, seed |-> <<7>>,
            parameters |-> <<ParseParameters(SubmittedParams).obj>>]
    ELSE [ok |-> FALSE, isNull |-> FALSE, id |-> <<>>, image_url |-> <<>>,
          seed |-> <<>>, parameters |-> <<>>]

\* (parameters ? JSON.parse(parameters) : {}).f throws TypeError when the
\* string parses to null
ParametersThrow(p) == p # NoParams /\ ParseParameters(p).isNull

\* x.f ?? d
Field(obj, f, d) == IF f \in DOMAIN obj THEN obj[f] ELSE d

\* strength ?? 0.7, cfgScale ?? 7.5, steps ?? 20, sampler ?? 'Euler a'
DefaultParameters ==
    [strength |-> "0.7", cfgScale |-> "7.5", steps |-> "20", sampler |-> "Euler a"]

\* mutant: the defaults, whatever the request carried
EffectiveParameters_Defaults(p) == DefaultParameters

\* the parameters object of a frontendResult
EffectiveParameters(p) ==
    LET obj == IF p # NoParams THEN ParseParameters(p).obj ELSE EmptyObject
    IN [strength |-> Field(obj, "strength", "0.7"),
        cfgScale |-> Field(obj, "cfgScale", "7.5"),
        steps    |-> Field(obj, "steps", "20"),
        sampler  |-> Field(obj, "sampler", "Euler a")]

\* `data:image/jpeg;base64,${Buffer.from(imageBuffer).toString('base64')}`
DataRef(img) == <<"data:image/jpeg;base64", img>>

\* frontendResult of the success branch
SuccessResult(jid, payload, p, seed, t) ==
    [id        |-> IF payload.id # <<>> THEN payload.id[1] ELSE jid,
     imageUrl  |-> IF payload.image_url # <<>> THEN payload.image_url[1]
                   ELSE UndefinedUrl,
     seed      |-> seed,
     parameters |-> EffectiveParameters(p),
     createdAt |-> t]

\* frontendResult of the catch branch and of the non-zero exit branch
DegradedResult(jid, img, p, seed, t) ==
    [id        |-> jid,
     imageUrl  |-> DataRef(img),
     seed      |-> seed,
     parameters |-> EffectiveParameters(p),
     createdAt |-> t]

\* the record written by store.jobs.set on creation
NewRecord(jid) ==
    [jobId |-> jid, status |-> "processing", progress |-> InitialProgress,
     currentStep |-> "Starting Python worker...", createdAt |-> 0,
     results |-> <<>>, errorMessage |-> ""]

\* mutant: the completion write forgets the results
CompletedRecord_NoResults(jid, step, res, t) ==
    [jobId |-> jid, status |-> "completed", progress |-> FullProgress,
     currentStep |-> step, createdAt |-> t,
     results |-> <<>>, errorMessage |-> ""]

\* mutant: the completion write resets the progress
CompletedRecord_ProgressReset(jid, step, res, t) ==
    [jobId |-> jid, status |-> "completed", progress |-> 0,
     currentStep |-> step, createdAt |-> t,
     results |-> <<res>>, errorMessage |-> ""]

\* the record written by store.jobs.set in the close handler
CompletedRecord(jid, step, res, t) ==
    [jobId |-> jid, status |-> "completed", progress |-> FullProgress,
     currentStep |-> step, createdAt |-> t,
     results |-> <<res>>, errorMessage |-> ""]

\* pythonProcess.on('close', (code) => ...): threw is TRUE when the
\* listener ends with an uncaught TypeError before any store write
CloseOutcome(q, code, out, seed, t) ==
    LET payload == ParseOutput(out)
        parsed  == payload.ok /\ ~payload.isNull /\ ~ParametersThrow(q.parameters)
    IN IF ParametersThrow(q.parameters)
         THEN [threw |-> TRUE, record |-> NoJob]
       ELSE IF code = 0 /\ parsed
         THEN [threw |-> FALSE,
               record |-> CompletedRecord(q.jobId, "Processing complete",
                            SuccessResult(q.jobId, payload, q.parameters, seed, t), t)]
       ELSE IF code = 0
         THEN [threw |-> FALSE,
               record |-> CompletedRecord(q.jobId, "Processing complete",
                            DegradedResult(q.jobId, q.image, q.parameters, seed, t), t)]
       ELSE [threw |-> FALSE,
             record |-> CompletedRecord(q.jobId, "Processing complete (fallback)",
                          DegradedResult(q.jobId, q.image, q.parameters, seed, t), t)]

\* --------------------------------------------------------- HTTP responses
NoResp == [status |-> 0]
BadRequest == [status |-> 400, error |-> "Missing required fields: image, model_id"]
ServerError == [status |-> 500, error |-> "Processing failed"]
Accepted(jid) == [status |-> 200, job_id |-> jid, jobStatus |-> "pending"]

\* mutant: an unknown id is reported as a job still waiting
NotFoundView_Pending(id) ==
    [http |-> 200, job_id |-> id, status |-> "pending", progress |-> 0,
     current_step |-> "Job not found"]

\* GET /api/status/[jobId], unknown id
NotFoundView(id) ==
    [http |-> 200, job_id |-> id, status |-> "failed", progress |-> 0,
     current_step |-> "Job not found"]

\* GET /api/status/[jobId], known id
JobView(job) ==
    [http |-> 200, job_id |-> job.jobId, status |-> job.status,
     progress |-> job.progress,
     current_step |-> IF job.currentStep # "" THEN job.currentStep ELSE NullStep,
     results |-> job.results,
     error_message |-> IF job.errorMessage # "" THEN <<job.errorMessage>> ELSE <<>>,
     completed_at |-> IF job.status = "completed" THEN <<"toISOString">> ELSE <<>>]

StatusView(id) ==
    IF getProcessingState[id] = NoJob THEN NotFoundView(id)
    ELSE JobView(getProcessingState[id])

NoView == [status |-> "none"]

\* ------------------------------------------------------------------ Init
NewRequest(from, img, model, p) ==
    [from |-> from, image |-> img, modelId |-> model, parameters |-> p,
     pc |-> "sent", jobId |-> <<>>, resp |-> NoResp,
     exited |-> FALSE, code |-> 0, output |-> ""]

IdleClient ==
    [pc |-> "idle", isProcessing |-> FALSE, processingStatus |-> "pending",
     progress |-> 0, currentStep |-> "", req |-> 0, jobId |-> <<>>,
     elapsed |-> 0, inflight |-> NoView, lastPoll |-> "none",
     results |-> <<>>, selectedResultId |-> <<>>,
     timers |-> 0, fetches |-> 0]

\* no call of withRetry is under way
NoCall == [pc |-> "idle"]

Init ==
    /\ jobs = [j \in JobIds |-> NoJob]
    /\ reqs = <<>>
    /\ lastView = NoView
    /\ client = IdleClient
    /\ call = NoCall

\* --------------------------------------------------------- server actions
\* mutant: the record is created before the required fields are checked
Received_RecordFirst(q, mkdirOk) ==
    IF q.image = NoImage \/ q.modelId = NoModel
      THEN [req |-> [q EXCEPT !.pc = "responded", !.resp = BadRequest],
            record |-> NewRecord(NewJobId)]
    ELSE IF ~mkdirOk
      THEN [req |-> [q EXCEPT !.pc = "responded", !.jobId = NewJobId,
                              !.resp = ServerError],
            record |-> NewRecord(NewJobId)]
    ELSE [req |-> [q EXCEPT !.pc = "buffering", !.jobId = NewJobId],
          record |-> NewRecord(NewJobId)]

\* POST, up to the await of image.arrayBuffer(): the request as the handler
\* leaves it, and the record it created (NoJob when it created none)
Received(q, mkdirOk) ==
    IF q.image = NoImage \/ q.modelId = NoModel
      THEN [req |-> [q EXCEPT !.pc = "responded", !.resp = BadRequest],
            record |-> NoJob]
    ELSE IF q.parameters # NoParams /\ ~ParseParameters(q.parameters).ok
      THEN [req |-> [q EXCEPT !.pc = "responded", !.resp = ServerError],
            record |-> NoJob]
    ELSE IF ~mkdirOk
      THEN [req |-> [q EXCEPT !.pc = "responded", !.jobId = NewJobId,
                              !.resp = ServerError],
            record |-> NewRecord(NewJobId)]
    ELSE [req |-> [q EXCEPT !.pc = "buffering", !.jobId = NewJobId],
          record |-> NewRecord(NewJobId)]

\* mutant: the write replaces the store by one that holds this record only
StoreSet_Replace(record) ==
    IF record = NoJob THEN jobs
    ELSE [j \in JobIds |-> IF j = record.jobId THEN record ELSE NoJob]

\* mutant: the write evicts the records that are completed
StoreSet_Evicts(record) ==
    IF record = NoJob THEN jobs
    ELSE [j \in JobIds |-> IF j = record.jobId THEN record
                           ELSE IF jobs[j].status = "completed" THEN NoJob
                           ELSE jobs[j]]

\* store.jobs.set(jobId, record); no write when the handler created none
StoreSet(record) ==
    IF record = NoJob THEN jobs ELSE [jobs EXCEPT ![record.jobId] = record]

\* an HTTP caller other than the page sends POST /api/process
DirectSubmit ==
    /\ Len(reqs) < MaxRequests
    /\ \E img \in {Artifact(Len(reqs) + 1), NoImage}, m \in ModelIds \cup {NoModel},
          p \in ParamStrings, mkdirOk \in BOOLEAN :
         LET o == Received(NewRequest("direct", img, m, p), mkdirOk) IN
         /\ reqs' = Append(reqs, o.req)
         /\ jobs' = StoreSet(o.record)
    /\ UNCHANGED <<lastView, client, call>>

\* the page's POST /api/process reaches the server
Receive(r) ==
    /\ reqs[r].pc = "sent"
    /\ \E mkdirOk \in BOOLEAN :
         LET o == Received(reqs[r], mkdirOk) IN
         /\ reqs' = [reqs EXCEPT ![r] = o.req]
         /\ jobs' = StoreSet(o.record)
    /\ UNCHANGED <<lastView, client, call>>

\* mutant: the launch of the worker is written to the record
Spawn_WritesProgress(r) ==
    /\ reqs[r].pc = "buffering"
    /\ reqs' = [reqs EXCEPT ![r].pc = "running"]
    /\ jobs' = [jobs EXCEPT ![reqs[r].jobId].progress = 10]
    /\ UNCHANGED <<lastView, client, call>>

\* POST, from fs.writeFileSync to the returned Promise; a spawn that fails
\* emits 'error', which has no listener: the Promise never resolves
Spawn(r) ==
    LET q == reqs[r] IN
    /\ q.pc = "buffering"
    /\ \E writeOk \in BOOLEAN, spawnOk \in BOOLEAN :
         reqs' = IF ~writeOk
                   THEN [reqs EXCEPT ![r].pc = "responded", ![r].resp = ServerError]
                 ELSE IF ~spawnOk
                   THEN [reqs EXCEPT ![r].pc = "hung"]
                 ELSE [reqs EXCEPT ![r].pc = "running"]
    /\ UNCHANGED <<jobs, lastView, client, call>>

\* the worker exits and the 'close' listener runs; stdout is read only
\* when the exit code is 0
WorkerClose(r) ==
    LET q == reqs[r] IN
    /\ q.pc = "running"
    /\ \E code \in ExitCodes, out \in WorkerOutputs, seed \in Seeds,
          t \in 0..MaxWorkerMs :
         LET o == CloseOutcome(q, code, out, seed, t)
             seen == IF code = 0 THEN out ELSE ""
         IN
         IF o.threw
           THEN /\ reqs' = [reqs EXCEPT ![r].pc = "hung", ![r].exited = TRUE,
                                        ![r].code = code, ![r].output = seen]
                /\ jobs' = jobs
           ELSE /\ jobs' = StoreSet(o.record)
                /\ reqs' = [reqs EXCEPT ![r].pc = "responded", ![r].exited = TRUE,
                                        ![r].code = code, ![r].output = seen,
                                        ![r].resp = Accepted(q.jobId)]
    /\ UNCHANGED <<lastView, client, call>>

\* mutant: a query for an unknown id stores a record for it
DirectStatus_Creates(id) ==
    /\ lastView' = StatusView(id)
    /\ jobs' = IF jobs[id] = NoJob THEN [jobs EXCEPT ![id] = NewRecord(id)]
               ELSE jobs
    /\ UNCHANGED <<reqs, client, call>>

\* GET /api/status/[jobId] from a caller other than the page
DirectStatus(id) ==
    /\ lastView' = StatusView(id)
    /\ UNCHANGED <<jobs, reqs, client, call>>

\* ----------------------------------------------------------- page actions
\* mutant: the catch block shows the error and leaves isProcessing set
Caught_KeepsProcessing(c, message) ==
    [c EXCEPT !.processingStatus = "failed", !.currentStep = message,
              !.pc = "idle"]

\* the catch block of handleStartProcessing
Caught(c, message) ==
    [c EXCEPT !.processingStatus = "failed", !.currentStep = message,
              !.isProcessing = FALSE, !.pc = "idle"]

\* handleStartProcessing up to the await of fetch(.../api/process); the
\* button that calls it is disabled unless canProcess
handleStartProcessing ==
    /\ client.pc = "idle"
    /\ ~client.isProcessing
    /\ Len(reqs) < MaxRequests
    /\ \E uploadedFile \in {Artifact(Len(reqs) + 1)}, selectedModelId \in ModelIds :
         /\ reqs' = Append(reqs, NewRequest("page", uploadedFile, selectedModelId,
                                            SubmittedParams))
         /\ client' = [client EXCEPT !.pc = "awaitPost", !.isProcessing = TRUE,
                         !.processingStatus = "initializing", !.progress = 0,
                         !.currentStep = "Preparing request...",
                         !.req = Len(reqs) + 1, !.jobId = <<>>, !.elapsed = 0,
                         !.inflight = NoView, !.lastPoll = "none"]
    /\ UNCHANGED <<jobs, lastView, call>>

\* the POST response arrives: !response.ok throws into the catch block,
\* otherwise the first pollStatus is scheduled
PostResponse ==
    LET resp == reqs[client.req].resp IN
    /\ client.pc = "awaitPost"
    /\ resp # NoResp
    /\ client' = IF resp.status # 200
                   THEN Caught(client, "Error: HTTP error!")
                 ELSE [client EXCEPT !.pc = "pollArmed", !.jobId = resp.job_id,
                                     !.timers = @ + 1]
    /\ UNCHANGED <<jobs, reqs, lastView, call>>

\* fetch(.../api/process) rejects
PostError ==
    /\ client.pc = "awaitPost"
    /\ client' = Caught(client, "Error: Failed to fetch")
    /\ UNCHANGED <<jobs, reqs, lastView, call>>

\* mutant: the poll timer is an interval, which stays armed when it fires
PollFire_Interval ==
    /\ client.pc = "pollArmed"
    /\ client.timers > 0
    /\ client.elapsed >= InitialPollDelay
    /\ client' = [client EXCEPT !.pc = "awaitStatus", !.lastPoll = "none",
                                !.fetches = @ + 1]
    /\ UNCHANGED <<jobs, reqs, lastView, call>>

\* the timer calls pollStatus, which arms the abort timer and fetches; no
\* poll starts sooner than the first timer's delay after the submission.
\* timers counts the armed poll timers, fetches the status requests that
\* have not settled
PollFire ==
    /\ client.pc = "pollArmed"
    /\ client.timers > 0
    /\ client.elapsed >= InitialPollDelay
    /\ client' = [client EXCEPT !.pc = "awaitStatus", !.lastPoll = "none",
                                !.timers = @ - 1, !.fetches = @ + 1]
    /\ UNCHANGED <<jobs, reqs, lastView, call>>

\* GET /api/status/[jobId] for the page's request
StatusServe ==
    /\ client.pc = "awaitStatus"
    /\ client.inflight = NoView
    /\ client' = [client EXCEPT !.inflight = StatusView(client.jobId)]
    /\ UNCHANGED <<jobs, reqs, lastView, call>>

\* mutant: the timer is re-armed whatever the status
Polled_Rearms(c, statusData) ==
    [c EXCEPT !.processingStatus = statusData.status,
              !.currentStep = IF statusData.current_step = NullStep
                                THEN "Processing..."
                              ELSE statusData.current_step,
              !.progress = statusData.progress,
              !.inflight = NoView, !.pc = "pollArmed", !.lastPoll = "ok",
              !.fetches = @ - 1, !.timers = @ + 1]

\* pollStatus after the awaits of fetch and statusResponse.json(): the
\* completed branch awaits createResults, the failed branch throws inside
\* the timer callback, any other status re-arms the timer (2000 ms)
Polled(c, statusData) ==
    LET shown == [c EXCEPT !.processingStatus = statusData.status,
                           !.currentStep = IF statusData.current_step = NullStep
                                             THEN "Processing..."
                                           ELSE statusData.current_step,
                           !.progress = statusData.progress,
                           !.inflight = NoView, !.fetches = @ - 1]
    IN IF statusData.status = "completed"
         THEN [shown EXCEPT !.pc = "saving", !.lastPoll = "ok",
                            !.inflight = statusData]
       ELSE IF statusData.status = "failed"
         THEN [shown EXCEPT !.pc = "stopped", !.lastPoll = "threw"]
       ELSE [shown EXCEPT !.pc = "pollArmed", !.lastPoll = "ok",
                          !.timers = @ + 1]

StatusResponse ==
    /\ client.pc = "awaitStatus"
    /\ client.inflight # NoView
    /\ client' = Polled(client, client.inflight)
    /\ UNCHANGED <<jobs, reqs, lastView, call>>

\* fetch(.../api/status/...) rejects inside pollStatus, by a network error
\* or by statusController.abort(), which no poll sees sooner than its delay
\* after the first poll; pollStatus runs from a timer, so nothing catches
\* the rejection
PollRejected(c, cause) ==
    [c EXCEPT !.pc = "stopped", !.lastPoll = cause, !.inflight = NoView,
              !.fetches = @ - 1]

StatusError ==
    /\ client.pc = "awaitStatus"
    /\ \E cause \in {"network", "abort"} :
         /\ cause = "abort" => client.elapsed >= InitialPollDelay + StatusTimeout
         /\ client' = PollRejected(client, cause)
    /\ UNCHANGED <<jobs, reqs, lastView, call>>

\* the args validator of the createResults mutation: imageUrl is v.string()
createResultsArgs(results) ==
    \A i \in 1..Len(results) : results[i].imageUrl # UndefinedUrl

\* the handler of createResults: one document per result, appended to the
\* table the page's getResults query reads
createResults(stored, results) ==
    stored \o [i \in 1..Len(results) |->
                [imageUrl |-> results[i].imageUrl, seed |-> results[i].seed,
                 parameters |-> results[i].parameters, isFavorite |-> FALSE]]

\* the completed branch of pollStatus once createResults has settled: the
\* first new document is selected when the mutation resolved; a rejection
\* (arguments refused by the validator, mutation not delivered) is logged
\* and nothing else is kept
Saved(c, resolved) ==
    LET done == [c EXCEPT !.pc = "idle", !.isProcessing = FALSE,
                          !.inflight = NoView]
    IN IF resolved
         THEN [done EXCEPT !.results = createResults(c.results, c.inflight.results),
                           !.selectedResultId = <<Len(c.results) + 1>>]
       ELSE done

SaveDone ==
    /\ client.pc = "saving"
    /\ \E resolved \in BOOLEAN :
         /\ resolved => createResultsArgs(client.inflight.results)
         /\ client' = Saved(client, resolved)
    /\ UNCHANGED <<jobs, reqs, lastView, call>>

\* one second passes in the browser
ClientTick ==
    /\ client.isProcessing
    /\ client.elapsed < MaxElapsed
    /\ client' = [client EXCEPT !.elapsed = client.elapsed + 1]
    /\ UNCHANGED <<jobs, reqs, lastView, call>>

\* the HTTP interface under arbitrary callers
Next ==
    \/ DirectSubmit
    \/ \E r \in 1..Len(reqs) : Spawn(r)
    \/ \E r \in 1..Len(reqs) : WorkerClose(r)
    \/ \E id \in JobIds : DirectStatus(id)

Spec == Init /\ [][Next]_vars

\* the page as the only caller of the HTTP interface
PageNext ==
    \/ handleStartProcessing
    \/ \E r \in 1..Len(reqs) : Receive(r)
    \/ \E r \in 1..Len(reqs) : Spawn(r)
    \/ \E r \in 1..Len(reqs) : WorkerClose(r)
    \/ PostResponse
    \/ PostError
    \/ PollFire
    \/ StatusServe
    \/ StatusResponse
    \/ StatusError
    \/ SaveDone
    \/ ClientTick

PageSpec == Init /\ [][PageNext]_vars

\* ------------------------------------- the page against any server
\* values of the JobRecord type a store can hold for one id
JobRecords(jid) ==
    {NewRecord(jid),
     [NewRecord(jid) EXCEPT !.progress = 50, !.currentStep = "Generating"],
     CompletedRecord(jid, "Processing complete",
                     DegradedResult(jid, Artifact(1), SubmittedParams, 11, 0), 0)}
    \cup {[NewRecord(jid) EXCEPT !.status = "failed", !.progress = pr,
                                 !.errorMessage = e]
            : pr \in {0, 50}, e \in {"", "CUDA out of memory"}}

\* bodies GET /api/status/[jobId] can answer for one id
WireViews(id) == {NotFoundView(id)} \cup {JobView(rec) : rec \in JobRecords(id)}

\* a 200 answer of POST /api/process that carries the Results already
AcceptedInline(jid) ==
    [status |-> 200, job_id |-> jid, jobStatus |-> "completed",
     results |-> <<DegradedResult(jid, Artifact(1), SubmittedParams, 11, 0)>>]

\* answers to the page's POST
PostResponses(jid) == {BadRequest, ServerError, Accepted(jid), AcceptedInline(jid)}

\* fetch(.../api/process) resolves with some answer
PostAnswered ==
    /\ client.pc = "awaitPost"
    /\ reqs[client.req].pc = "sent"
    /\ \E resp \in PostResponses(JobId(client.req)) :
         reqs' = [reqs EXCEPT ![client.req].pc = "responded",
                              ![client.req].resp = resp]
    /\ UNCHANGED <<jobs, lastView, client, call>>

\* fetch(.../api/status/...) resolves with some body
StatusAnswered ==
    /\ client.pc = "awaitStatus"
    /\ client.inflight = NoView
    /\ \E statusData \in WireViews(client.jobId) :
         client' = [client EXCEPT !.inflight = statusData]
    /\ UNCHANGED <<jobs, reqs, lastView, call>>

\* the page's handlers under every answer of the wire format
PollerNext ==
    \/ handleStartProcessing
    \/ PostAnswered
    \/ PostResponse
    \/ PostError
    \/ PollFire
    \/ StatusAnswered
    \/ StatusResponse
    \/ StatusError
    \/ SaveDone
    \/ ClientTick

PollerSpec == Init /\ [][PollerNext]_vars

\* the same, where the server answers every request, the browser's event
\* loop runs every timer callback and continuation that is ready, the
\* createResults mutation settles, and time passes
FairPollerSpec ==
    /\ PollerSpec
    /\ WF_vars(PostAnswered)
    /\ WF_vars(PostResponse)
    /\ WF_vars(PollFire)
    /\ WF_vars(StatusAnswered)
    /\ WF_vars(StatusResponse)
    /\ WF_vars(SaveDone)
    /\ WF_vars(ClientTick)

\* ---------------------------------------------------------- withRetry
RetryCounts == 0..MaxRetryCount
Delays == {0, DefaultDelay}
Values == {"v1", "v2"}
Errors == {"e1", "e2"}
Undefined == "undefined"

\* Math.pow(2, n)
Pow2(n) == 2^n

\* the head of the for loop: fn is called when attempt <= maxRetries,
\* otherwise the loop is left and lastError is thrown
LoopHead(c) ==
    IF c.attempt <= c.maxRetries
      THEN [c EXCEPT !.pc = "awaitFn", !.calls = @ + 1]
    ELSE [c EXCEPT !.pc = "thrown", !.thrown = c.lastError]

\* withRetry(fn, maxRetries, delay) up to its first await
withRetry ==
    /\ call.pc \in {"idle", "returned", "thrown"}
    /\ \E maxRetries \in RetryCounts, delay \in Delays :
         call' = LoopHead([pc |-> "loop", maxRetries |-> maxRetries,
                           delay |-> delay, attempt |-> 1, calls |-> 0,
                           lastError |-> Undefined, errors |-> <<>>,
                           waitTime |-> 0, value |-> Undefined,
                           thrown |-> Undefined])
    /\ UNCHANGED <<jobs, reqs, lastView, client>>

\* the promise of fn() resolves: return await fn()
FnResolves ==
    /\ call.pc = "awaitFn"
    /\ \E v \in Values : call' = [call EXCEPT !.pc = "returned", !.value = v]
    /\ UNCHANGED <<jobs, reqs, lastView, client>>

\* the catch block of one attempt
Rejected(c, e) ==
    IF c.attempt = c.maxRetries
      THEN [c EXCEPT !.errors = Append(@, e), !.lastError = e,
                     !.pc = "thrown", !.thrown = e]
    ELSE [c EXCEPT !.errors = Append(@, e), !.lastError = e,
                   !.pc = "waiting",
                   !.waitTime = c.delay * Pow2(c.attempt - 1)]

\* the promise of fn() rejects
FnRejects ==
    /\ call.pc = "awaitFn"
    /\ \E e \in Errors : call' = Rejected(call, e)
    /\ UNCHANGED <<jobs, reqs, lastView, client>>

\* the backoff timer fires: attempt++ and the loop head again
BackoffElapsed ==
    /\ call.pc = "waiting"
    /\ call' = LoopHead([call EXCEPT !.attempt = @ + 1])
    /\ UNCHANGED <<jobs, reqs, lastView, client>>

RetryNext ==
    \/ withRetry
    \/ FnResolves
    \/ FnRejects
    \/ BackoffElapsed

RetrySpec == Init /\ [][RetryNext]_vars

\* -------------------------------------------------------------- properties
Requests == 1..Len(reqs)
Terminal == {"completed", "failed"}
ValidSubmission(q) == q.image # NoImage /\ q.modelId # NoModel
Known == {j \in JobIds : jobs[j] # NoJob}

\* C1: every valid submission, whatever its parameters string, has been
\* answered with a job_id once its worker has exited, and its record is then
\* completed or failed, with at least one Result when completed
C1_ValidSubmissionCompletes ==
    \A r \in Requests :
      (ValidSubmission(reqs[r]) /\ reqs[r].exited) =>
        /\ reqs[r].pc = "responded"
        /\ reqs[r].resp.status = 200
        /\ reqs[r].resp.job_id \in JobIds
        /\ jobs[reqs[r].jobId].status \in Terminal
        /\ jobs[reqs[r].jobId].status = "completed" =>
             Len(jobs[reqs[r].jobId].results) >= 1

\* C2: a record whose status is completed has a non-empty results list
C2_CompletedHasResults ==
    \A j \in JobIds : jobs[j].status = "completed" => Len(jobs[j].results) >= 1

C2_Witness ==
    \E r \in Requests :
      /\ reqs[r].exited /\ reqs[r].code # 0
      /\ jobs[reqs[r].jobId].status = "completed"

\* C3: a status query for an id the store does not hold answers 200 with
\* status failed, progress 0 and current_step "Job not found"
C3_UnknownIdView ==
    (lastView # NoView /\ jobs[lastView.job_id] = NoJob) =>
      /\ lastView.http = 200
      /\ lastView.status = "failed"
      /\ lastView.progress = 0
      /\ lastView.current_step = "Job not found"

C3_Witness ==
    /\ lastView # NoView
    /\ jobs[lastView.job_id] = NoJob
    /\ Known # {}

\* C4: a submission without image or without model_id is answered 400 with
\* an error field and no job id, creates no record, changes no record and
\* never gets a worker
C4_InvalidRejected ==
    [][\A r \in 1..Len(reqs') :
         ~ValidSubmission(reqs'[r]) =>
           /\ reqs'[r].pc = "responded"
           /\ reqs'[r].resp.status = 400
           /\ "error" \in DOMAIN reqs'[r].resp
           /\ "job_id" \notin DOMAIN reqs'[r].resp
           /\ reqs'[r].jobId = <<>>
           /\ ~reqs'[r].exited
           /\ r > Len(reqs) => jobs' = jobs]_vars

C4_Witness ==
    \E r \in Requests :
      /\ ~ValidSubmission(reqs[r])
      /\ reqs[r].resp.status = 400
      /\ Known # {}

Rank(status) ==
    IF status = "none" THEN 0
    ELSE IF status \in {"queued", "pending"} THEN 1
    ELSE IF status = "processing" THEN 2
    ELSE 3

\* C5: every accepted submission has one record of its own, and a record's
\* status only moves forward: none, processing, then completed or failed,
\* where it stays
C5_CreatedOnceForwardOnly ==
    [][/\ \A j \in JobIds :
            /\ Rank(jobs'[j].status) >= Rank(jobs[j].status)
            /\ jobs[j].status \in Terminal => jobs'[j].status = jobs[j].status
            /\ (jobs[j] = NoJob /\ jobs'[j] # NoJob) =>
                 Cardinality({r \in 1..Len(reqs') : reqs'[r].jobId = j}) = 1
       /\ \A r \in 1..Len(reqs') :
            reqs'[r].jobId # <<>> =>
              /\ jobs'[reqs'[r].jobId] # NoJob
              /\ r <= Len(reqs) /\ reqs[r].jobId # <<>> =>
                   reqs'[r].jobId = reqs[r].jobId
              /\ \A r2 \in 1..Len(reqs') :
                   reqs'[r2].jobId = reqs'[r].jobId => r2 = r]_vars

C5_Witness ==
    \E r1, r2 \in Requests :
      /\ r1 < r2
      /\ reqs[r1].jobId # <<>> /\ reqs[r2].jobId # <<>>
      /\ jobs[reqs[r1].jobId].status = "completed"
      /\ jobs[reqs[r2].jobId].status = "completed"

\* C6: for any one id the progress a status query answers never decreases
\* from one step to the next, and a query answered after another query for
\* the same id carries a progress at least as large
C6_ProgressMonotone ==
    [][/\ \A id \in JobIds : StatusView(id)'.progress >= StatusView(id).progress
       /\ (lastView # NoView /\ lastView'.job_id = lastView.job_id) =>
            lastView'.progress >= lastView.progress]_vars

C6_Witness ==
    /\ lastView # NoView
    /\ lastView.status = "completed"
    /\ lastView.progress = FullProgress

\* C7: when the worker exits non-zero, or exits zero with output that does
\* not parse, the record is completed with exactly one Result whose imageUrl
\* is the data reference of the submitted image
C7_DegradedCompletes ==
    \A r \in Requests :
      (reqs[r].exited /\ (reqs[r].code # 0 \/ ~ParseOutput(reqs[r].output).ok)) =>
        /\ jobs[reqs[r].jobId].status = "completed"
        /\ Len(jobs[reqs[r].jobId].results) = 1
        /\ jobs[reqs[r].jobId].results[1].imageUrl = DataRef(reqs[r].image)

\* C8: when POST /process answers with the job id, the record is still in
\* processing
C8_AnswersBeforeCompletion ==
    [][\A r \in Requests :
         (reqs[r].resp = NoResp /\ reqs'[r].resp.status = 200) =>
           jobs'[reqs'[r].jobId].status = "processing"]_vars

\* C9: more than 25 seconds after the submission the page is completed or
\* failed and no poll is scheduled or in flight
C9_HardDeadline ==
    (client.req # 0 /\ client.elapsed > 25) =>
      /\ client.processingStatus \in Terminal
      /\ client.pc \notin {"pollArmed", "awaitStatus"}

\* C10: after a status request that ended in a network error or a timeout
\* the page has not failed and its next poll is scheduled or under way
C10_PollErrorIsTransient ==
    client.lastPoll \in {"network", "abort"} =>
      /\ client.processingStatus # "failed"
      /\ client.pc \in {"pollArmed", "awaitStatus"}

\* C11: when the page leaves the completed branch, the Results of the job
\* are visible through exactly one of two places: the durable store (the
\* hand-off resolved) or a list the page keeps itself (the hand-off was
\* rejected).  The page keeps no such list, so the Results have to be in
\* the store.
C11_ResultsVisibleOnce ==
    [][(client.pc = "saving" /\ client'.pc = "idle") =>
         Len(client'.results) = Len(client.results) + Len(client.inflight.results)]_vars

\* C12: a submission whose worker could not be launched has a record in
\* status failed that carries an error message
C12_LaunchFailureFails ==
    \A r \in Requests :
      (reqs[r].pc = "hung" /\ ~reqs[r].exited) =>
        /\ jobs[reqs[r].jobId].status = "failed"
        /\ jobs[reqs[r].jobId].errorMessage # ""

\* C13: submissions that overlap have distinct job ids, and a step of one
\* submission (its creation, its worker's launch, its completion) leaves the
\* record of every other submission as it was
C13_SubmissionsIndependent ==
    [][/\ \A r1, r2 \in 1..Len(reqs') :
            (r1 # r2 /\ reqs'[r1].jobId # <<>> /\ reqs'[r2].jobId # <<>>) =>
              reqs'[r1].jobId # reqs'[r2].jobId
       /\ \A r \in Requests :
            (reqs'[r] = reqs[r] /\ reqs[r].jobId # <<>>) =>
              jobs'[reqs[r].jobId] = jobs[reqs[r].jobId]]_vars

\* the later submission has completed while the earlier one's worker runs
C13_Witness ==
    \E r1, r2 \in Requests :
      /\ r1 < r2
      /\ reqs[r1].pc = "running"
      /\ jobs[reqs[r1].jobId].status = "processing"
      /\ reqs[r2].exited
      /\ jobs[reqs[r2].jobId].status = "completed"

\* C14: every status view, for a known id or an unknown one, has a results
\* list and an error_message (possibly null), and its completed_at is set
\* exactly when its status is completed
C14_ViewShape ==
    lastView # NoView =>
      /\ {"results", "error_message", "completed_at"} \subseteq DOMAIN lastView
      /\ lastView.completed_at # <<>> <=> lastView.status = "completed"

\* C15: whatever the worker printed before it exited with code 0, every
\* Result of the completed record has an image reference (the worker's or
\* the data reference of the submitted image), never an absent one
C15_ImageAlwaysDefined ==
    \A r \in Requests :
      (reqs[r].exited /\ reqs[r].code = 0
         /\ jobs[reqs[r].jobId].status = "completed") =>
        \A i \in 1..Len(jobs[reqs[r].jobId].results) :
          jobs[reqs[r].jobId].results[i].imageUrl \in
            {WorkerUrl, DataRef(reqs[r].image)}

\* C16: once the page shows completed or failed, no step of the same
\* submission (timer callback, status response, settled hand-off) changes
\* the status or the progress it shows
C16_TerminalIsFinal ==
    [][(client.processingStatus \in Terminal /\ client'.req = client.req) =>
         /\ client'.processingStatus = client.processingStatus
         /\ client'.progress = client.progress]_vars

\* a status response ended the poll loop and time went on
C16_Witness ==
    /\ client.processingStatus \in Terminal
    /\ client.lastPoll \in {"ok", "threw"}
    /\ client.pc \in {"idle", "stopped"}
    /\ client.elapsed > InitialPollDelay

\* C17: a status response sets the displayed progress to the larger of the
\* value displayed before it and the value it reports, so that the progress
\* displayed for one submission never decreases
C17_ProgressIsMax ==
    [][/\ (client.pc = "awaitStatus" /\ client.inflight # NoView
            /\ client'.pc # "awaitStatus") =>
           client'.progress = IF client.progress >= client.inflight.progress
                                THEN client.progress
                              ELSE client.inflight.progress
       /\ client'.req = client.req => client'.progress >= client.progress]_vars

\* C18: after a status response that reports failed, the page shows failed
\* and its displayed text is the error_message of that response
C18_FailedSurfacesMessage ==
    [][(client.pc = "awaitStatus" /\ client.inflight # NoView
          /\ client.inflight.status = "failed"
          /\ "error_message" \in DOMAIN client.inflight
          /\ client.inflight.error_message # <<>>
          /\ client'.pc # "awaitStatus") =>
         /\ client'.processingStatus = "failed"
         /\ client'.currentStep = client.inflight.error_message[1]]_vars

\* C19: when the answer to the submission carries the Results, the page
\* issues no status query for it, shows progress 100 and is completed
C19_InlineResultsSkipPolling ==
    (client.req # 0 /\ client.jobId # <<>>
       /\ "results" \in DOMAIN reqs[client.req].resp) =>
      /\ client.pc \notin {"pollArmed", "awaitStatus", "saving", "stopped"}
      /\ client.lastPoll = "none"
      /\ client.progress = FullProgress
      /\ client.processingStatus = "completed"

\* what the worker printed back of its parameters: <<>> when it exited
\* non-zero or its output has no parameters member
EchoedParameters(q) ==
    IF q.code = 0 /\ ParseOutput(q.output).ok
      THEN ParseOutput(q.output).parameters
    ELSE <<>>

C21_WorkerSeedCarried ==
    \A r \in Requests :
      (reqs[r].exited /\ reqs[r].code = 0
         /\ ParseOutput(reqs[r].output).ok
         /\ ParseOutput(reqs[r].output).seed # <<>>
         /\ jobs[reqs[r].jobId].status = "completed") =>
        jobs[reqs[r].jobId].results[1].seed = ParseOutput(reqs[r].output).seed[1]

\* C22: the createdAt of a stored record is never changed by a later step
C22_CreatedAtImmutable ==
    [][\A j \in JobIds :
         jobs[j] # NoJob => jobs'[j].createdAt = jobs[j].createdAt]_vars

\* C23: a stored record is changed only by the step in which the worker of
\* its request exits, and only while it is still the record written at
\* creation: after its creation a record is written at most once
C23_WrittenOnceOnClose ==
    [][\A j \in JobIds :
         (jobs[j] # NoJob /\ jobs'[j] # jobs[j]) =>
           /\ jobs[j] = NewRecord(j)
           /\ \E r \in Requests :
                /\ reqs[r].jobId = j
                /\ reqs[r].pc = "running"
                /\ reqs'[r].exited]_vars

\* both submissions have had their one write
C23_Witness ==
    \E r1, r2 \in Requests :
      /\ r1 # r2
      /\ reqs[r1].exited /\ jobs[reqs[r1].jobId].status = "completed"
      /\ reqs[r2].exited /\ jobs[reqs[r2].jobId].status = "completed"
      /\ reqs[r1].code = 0 /\ reqs[r2].code # 0

\* C24: a record the store holds stays in the store: an id whose status
\* query answers with the stored record never answers "Job not found" later
C24_RecordsPersist ==
    [][/\ \A id \in JobIds :
            StatusView(id) # NotFoundView(id) => StatusView(id)' # NotFoundView(id)
       /\ (lastView # NoView /\ lastView # NotFoundView(lastView.job_id)
            /\ lastView'.job_id = lastView.job_id) =>
            lastView' # NotFoundView(lastView.job_id)]_vars

\* a query answered with the stored record of the first submission; since
\* then that record was completed and a second submission was stored
C24_Witness ==
    /\ lastView # NoView
    /\ lastView.status = "processing"
    /\ jobs[lastView.job_id].status = "completed"
    /\ Cardinality(Known) = 2

\* C25: a submission answered with 400 or 500 has left no record in the
\* store that is neither completed nor failed
C25_ErrorLeavesNoRecord ==
    \A r \in Requests :
      (reqs[r].resp.status \in {400, 500} /\ reqs[r].jobId # <<>>) =>
        jobs[reqs[r].jobId].status \in Terminal

\* C26: whenever the page shows completed or failed, isProcessing is
\* eventually false
C26_ProcessingEventuallyReset ==
    (client.processingStatus \in Terminal) ~> ~client.isProcessing

\* C27: at most one poll of a submission is outstanding (a poll timer armed
\* or a status request not yet settled), and a poll timer is armed only by
\* the accepted submission or by the handling of a status response whose
\* status is neither completed nor failed
C27_OnePollOutstanding ==
    [][/\ client'.timers + client'.fetches <= 1
       /\ client'.timers > client.timers =>
            \/ client.pc = "awaitPost"
            \/ /\ client.pc = "awaitStatus"
               /\ client.inflight # NoView
               /\ client.inflight.status \notin Terminal
               /\ client'.fetches = client.fetches - 1]_vars

\* the timer was re-armed by a handled status response
C27_Witness ==
    /\ client.pc = "pollArmed"
    /\ client.lastPoll = "ok"
    /\ client.timers = 1 /\ client.fetches = 0

\* C28: once the page has seen an answer to its POST that is not OK (400 or
\* 500), it shows failed with an error text, isProcessing is false, and no
\* poll of that submission is armed, in flight or done
C28_NotOkFailsWithoutPolling ==
    (client.req # 0 /\ client.pc # "awaitPost"
       /\ reqs[client.req].resp.status \in {400, 500}) =>
      /\ client.processingStatus = "failed"
      /\ client.currentStep \in {"Error: HTTP error!", "Error: Failed to fetch"}
      /\ ~client.isProcessing
      /\ client.pc = "idle"
      /\ client.jobId = <<>>
      /\ client.lastPoll = "none"
      /\ client.timers = 0 /\ client.fetches = 0

C28_Witness ==
    /\ client.req # 0
    /\ reqs[client.req].resp.status = 500
    /\ client.currentStep = "Error: HTTP error!"
    /\ client.elapsed > InitialPollDelay - 1

\* C29: a status query leaves the store as it was, for a known id and for
\* an unknown one: a step that answers a query, or that is not a step of a
\* submission's handler, changes no record and creates none
C29_StatusIsReadOnly ==
    [][(lastView' # lastView \/ reqs' = reqs) => jobs' = jobs]_vars

\* a query for an unknown id was answered while the store held a record,
\* and the id is still unknown
C29_Witness ==
    /\ lastView # NoView
    /\ lastView = NotFoundView(lastView.job_id)
    /\ jobs[lastView.job_id] = NoJob
    /\ \E j \in Known : jobs[j].status = "completed"

\* C30: a call of withRetry that has settled has called fn at least once
\* and at most maxRetries times; when it returned, it returned the value of
\* its last call of fn, all calls before having failed; when it threw, every
\* one of its maxRetries calls failed and it threw the error of the last
C30_WithRetry ==
    call.pc \in {"returned", "thrown"} =>
      /\ call.calls >= 1
      /\ call.calls <= call.maxRetries
      /\ call.pc = "returned" =>
           /\ call.value \in Values
           /\ Len(call.errors) = call.calls - 1
      /\ call.pc = "thrown" =>
           /\ Len(call.errors) = call.maxRetries
           /\ call.thrown = call.errors[Len(call.errors)]
====
